---- MODULE Spec2Model ----
(***************************************************************************)
(* Model of the span crate: the position-tracking character stream Chars   *)
(* (src/chars.rs), its speculative-lookahead wrapper Checkpoint            *)
(* (src/chars/checkpoint.rs) and the Span value produced by end_token      *)
(* (src/lib.rs).                                                           *)
(*                                                                         *)
(* A char is its Unicode scalar value.  Option<T> is a sequence of length  *)
(* at most one: <<>> is None and <<x>> is Some(x).                         *)
(***************************************************************************)
EXTENDS Integers, Sequences, FiniteSets, TLC

\* ------------------------------------------------------------------ bounds
MaxLen == 3          \* longest source text
MaxPat == 2          \* longest string handed to head_matches (in chars)
MaxHandles == 2      \* token handles open at once

\* ---------------------------------------------------------------- alphabet
NL == 10             \* '\n'
Alphabet == {NL, 97, 233}      \* '\n', 'a', 'é' (two bytes in UTF-8)
Tests == {"is_a", "not_nl", "any", "none"}

None == <<>>
Some(x) == <<x>>

Min(a, b) == IF a <= b THEN a ELSE b
Max(a, b) == IF a >= b THEN a ELSE b

SeqsUpTo(S, n) == UNION {[1..k -> S] : k \in 0..n}
Texts == SeqsUpTo(Alphabet, MaxLen)
Patterns == SeqsUpTo(Alphabet, MaxPat)

Take(s, n) == SubSeq(s, 1, Min(n, Len(s)))
Drop(s, n) == SubSeq(s, Min(n, Len(s)) + 1, Len(s))

\* The closure handed to peek_while.
Accept(t, c) ==
    CASE t = "is_a"   -> c = 97
      [] t = "not_nl" -> c # NL
      [] t = "any"    -> TRUE
      [] t = "none"   -> FALSE

\* char::len_utf8
len_utf8(c) ==
    IF c < 128 THEN 1 ELSE IF c < 2048 THEN 2 ELSE IF c < 65536 THEN 3 ELSE 4

\* str::len: the length of a string in bytes
RECURSIVE str_len(_)
str_len(s) == IF s = <<>> THEN 0 ELSE len_utf8(Head(s)) + str_len(Tail(s))

\* ------------------------------------------------------------------- state
VARIABLES
    text,      \* the text the stream was built from (never changes)
    it,        \* Chars.it: PeekNth's buffer and the iterator under it
    current,   \* Chars.current: Position
    mode,      \* who holds the stream: "idle", "cp" (Checkpoint), "pw" (peek_while)
    peeked,    \* Checkpoint.peeked
    test,      \* the predicate of the live peek_while adapter
    handles,   \* the TokenHandles that are open
    base,      \* the stream as it was when the live borrow was taken
    out,       \* what the live peek_while adapter has yielded so far
    op,        \* the last operation
    arg,       \* its argument
    ret        \* its result

vars == <<text, it, current, mode, peeked, test, handles, base, out, op, arg, ret>>

\* What the stream has still to yield.
Rest == it.buf \o it.iter

\* --------------------------------------------------------- PeekNth (it)
\* PeekNth::peek_nth: buffer up to n+1 items, hand out the one at depth n
peek_nth_fill(p, n) ==
    LET unbuffered == Max((n + 1) - Len(p.buf), 0)
        taken == Take(p.iter, unbuffered)
    IN [buf |-> p.buf \o taken, iter |-> Drop(p.iter, Len(taken))]

peek_nth(p, n) ==
    LET f == peek_nth_fill(p, n)
    IN [ret |-> IF n < Len(f.buf) THEN Some(f.buf[n + 1]) ELSE None, it |-> f]

\* PeekNth::next: the front of the buffer, else the iterator's next
\* it_next, but the source is read before the buffered lookahead
it_next_source_first(p) ==
    IF p.iter # <<>>
    THEN [ret |-> Some(Head(p.iter)), it |-> [buf |-> p.buf, iter |-> Tail(p.iter)]]
    ELSE IF p.buf # <<>>
    THEN [ret |-> Some(Head(p.buf)), it |-> [buf |-> Tail(p.buf), iter |-> p.iter]]
    ELSE [ret |-> None, it |-> p]

it_next(p) ==
    IF p.buf # <<>>
    THEN [ret |-> Some(Head(p.buf)), it |-> [buf |-> Tail(p.buf), iter |-> p.iter]]
    ELSE IF p.iter # <<>>
    THEN [ret |-> Some(Head(p.iter)), it |-> [buf |-> p.buf, iter |-> Tail(p.iter)]]
    ELSE [ret |-> None, it |-> p]

\* ------------------------------------------------------------------ Chars
Position0 == [loc |-> 0, line |-> 1, col |-> 1]

\* Chars::new
chars_new(str) == [it |-> [buf |-> <<>>, iter |-> str], current |-> Position0]

\* advance, but a newline leaves the column counting on
advance_no_column_reset(pos, c) ==
    IF c = NL
    THEN [loc |-> pos.loc + 1, line |-> pos.line + 1, col |-> pos.col + 1]
    ELSE [loc |-> pos.loc + 1, line |-> pos.line, col |-> pos.col + 1]

\* advance, but a newline only returns to column 1
advance_no_line_increment(pos, c) ==
    IF c = NL
    THEN [loc |-> pos.loc + 1, line |-> pos.line, col |-> 1]
    ELSE [loc |-> pos.loc + 1, line |-> pos.line, col |-> pos.col + 1]

\* the position update of Chars::next
advance(pos, c) ==
    IF c = NL
    THEN [loc |-> pos.loc + 1, line |-> pos.line + 1, col |-> 1]
    ELSE [loc |-> pos.loc + 1, line |-> pos.line, col |-> pos.col + 1]

\* chars_next, but an exhausted stream yields the newline of a final line
chars_next_reopens(c) ==
    LET n == it_next(c.it)
    IN IF n.ret = None
       THEN IF c.current.col > 1
            THEN [ret |-> Some(NL),
                  chars |-> [it |-> n.it, current |-> advance(c.current, NL)]]
            ELSE [ret |-> None, chars |-> c]
       ELSE [ret |-> n.ret,
             chars |-> [it |-> n.it, current |-> advance(c.current, n.ret[1])]]

\* <Chars as Iterator>::next
chars_next(c) ==
    LET n == it_next(c.it)
    IN IF n.ret = None
       THEN [ret |-> None, chars |-> c]
       ELSE [ret |-> n.ret,
             chars |-> [it |-> n.it, current |-> advance(c.current, n.ret[1])]]

\* chars_peek, but looking takes the character out of the stream
chars_peek_consuming(c) ==
    LET n == it_next(c.it)
    IN [ret |-> n.ret, chars |-> [it |-> n.it, current |-> c.current]]

\* Chars::peek
chars_peek(c) ==
    LET p == peek_nth(c.it, 0)
    IN [ret |-> p.ret, chars |-> [it |-> p.it, current |-> c.current]]

\* peeking_next, but advancing before the test (as take_while does)
peeking_next_consume_first(c, t) ==
    LET r == chars_next(c)
    IN IF r.ret = None
       THEN r
       ELSE IF Accept(t, r.ret[1]) THEN r ELSE [ret |-> None, chars |-> r.chars]

\* <Chars as PeekingNext>::peeking_next
peeking_next(c, t) ==
    LET p == chars_peek(c)
    IN IF p.ret = None
       THEN [ret |-> None, chars |-> p.chars]
       ELSE IF Accept(t, p.ret[1])
       THEN [ret |-> p.ret, chars |-> chars_next(p.chars).chars]
       ELSE [ret |-> None, chars |-> p.chars]

\* end_token, but the relative start is taken from the current position
end_token_start_from_current(cur, start) ==
    [absolute |-> Some([start |-> start.loc, end |-> cur.loc]),
     relative |-> [start |-> [line |-> cur.line, column |-> start.col],
                   end   |-> [line |-> cur.line, column |-> cur.col]]]

\* end_token, but start and end the wrong way round
end_token_reversed(cur, start) ==
    [absolute |-> Some([start |-> cur.loc, end |-> start.loc]),
     relative |-> [start |-> [line |-> cur.line, column |-> cur.col],
                   end   |-> [line |-> start.line, column |-> start.col]]]

\* Chars::end_token
end_token(cur, start) ==
    [absolute |-> Some([start |-> start.loc, end |-> cur.loc]),
     relative |-> [start |-> [line |-> start.line, column |-> start.col],
                   end   |-> [line |-> cur.line, column |-> cur.col]]]

\* ------------------------------------------------------------- Checkpoint
\* checkpoint_next, but counting a character even when there was none
checkpoint_next_always_counts(p, k) ==
    LET r == peek_nth(p, k)
    IN [ret |-> r.ret, it |-> r.it, peeked |-> k + 1]

\* <Checkpoint as Iterator>::next
checkpoint_next(p, k) ==
    LET r == peek_nth(p, k)
    IN [ret |-> r.ret, it |-> r.it, peeked |-> IF r.ret = None THEN k ELSE k + 1]

\* checkpoint_peek, but one place too deep
checkpoint_peek_one_ahead(p, k) == peek_nth(p, k + 1)

\* Checkpoint::peek
checkpoint_peek(p, k) == peek_nth(p, k)

\* self.take(n).collect::<String>() over a Checkpoint
RECURSIVE take_collect(_, _, _, _)
take_collect(p, k, n, acc) ==
    IF n = 0
    THEN [head |-> acc, it |-> p, peeked |-> k]
    ELSE LET r == checkpoint_next(p, k)
         IN IF r.ret = None
            THEN [head |-> acc, it |-> r.it, peeked |-> r.peeked]
            ELSE take_collect(r.it, r.peeked, n - 1, Append(acc, r.ret[1]))

\* head_matches, but input that ends early matches if what there is agrees
head_matches_accepts_short(p, k, s) ==
    LET t == take_collect(p, k, str_len(s), <<>>)
    IN [ret |-> (Take(s, Len(t.head)) = t.head), it |-> t.it, peeked |-> t.peeked]

\* head_matches, but a mismatch puts the lookahead cursor back
head_matches_rewinding(p, k, s) ==
    LET t == take_collect(p, k, str_len(s), <<>>)
    IN [ret |-> (s = t.head), it |-> t.it, peeked |-> IF s = t.head THEN t.peeked ELSE k]

\* Checkpoint::head_matches
head_matches(p, k, s) ==
    LET t == take_collect(p, k, str_len(s), <<>>)
    IN [ret |-> (s = t.head), it |-> t.it, peeked |-> t.peeked]

\* for _ in self.chars.take(n) {}
RECURSIVE take_drain(_, _)
take_drain(c, n) ==
    IF n = 0
    THEN c
    ELSE LET r == chars_next(c)
         IN IF r.ret = None THEN r.chars ELSE take_drain(r.chars, n - 1)

\* commit, but advancing one character more than was looked at
commit_one_more(c, k) == take_drain(c, k + 1)

\* Checkpoint::commit
commit(c, k) == take_drain(c, k)

\* ------------------------------------------------------------------- Init
NoBase == [current |-> Position0, rest |-> <<>>, it |-> [buf |-> <<>>, iter |-> <<>>]]
Snapshot == [current |-> current, rest |-> Rest, it |-> it]
chars == [it |-> it, current |-> current]

Init ==
    /\ text \in Texts
    /\ it = chars_new(text).it
    /\ current = chars_new(text).current
    /\ mode = "idle"
    /\ peeked = 0
    /\ test = "none"
    /\ handles = {}
    /\ base = NoBase
    /\ out = <<>>
    /\ op = "new"
    /\ arg = <<>>
    /\ ret = <<>>

\* ---------------------------------------------------------------- actions
\* chars.next()
CharsNext ==
    /\ mode = "idle"
    /\ LET r == chars_next(chars)
       IN /\ it' = r.chars.it
          /\ current' = r.chars.current
          /\ ret' = r.ret
    /\ op' = "next"
    /\ arg' = <<>>
    /\ UNCHANGED <<text, mode, peeked, test, handles, base, out>>

\* chars.peek()
CharsPeek ==
    /\ mode = "idle"
    /\ LET r == chars_peek(chars)
       IN /\ it' = r.chars.it
          /\ current' = r.chars.current
          /\ ret' = r.ret
    /\ op' = "peek"
    /\ arg' = <<>>
    /\ UNCHANGED <<text, mode, peeked, test, handles, base, out>>

\* chars.peek_while(test): the adapter borrows the stream
PeekWhile ==
    /\ mode = "idle"
    /\ \E t \in Tests :
          /\ test' = t
          /\ arg' = t
    /\ mode' = "pw"
    /\ base' = Snapshot
    /\ out' = <<>>
    /\ op' = "peek_while"
    /\ ret' = <<>>
    /\ UNCHANGED <<text, it, current, peeked, handles>>

\* next() on the peek_while adapter
PeekWhileNext ==
    /\ mode = "pw"
    /\ LET r == peeking_next(chars, test)
       IN /\ it' = r.chars.it
          /\ current' = r.chars.current
          /\ ret' = r.ret
          /\ out' = out \o r.ret
    /\ op' = "pw_next"
    /\ arg' = test
    /\ UNCHANGED <<text, mode, peeked, test, handles, base>>

\* the peek_while adapter is dropped
PeekWhileDrop ==
    /\ mode = "pw"
    /\ mode' = "idle"
    /\ base' = NoBase
    /\ out' = <<>>
    /\ test' = "none"
    /\ op' = "pw_drop"
    /\ arg' = <<>>
    /\ ret' = <<>>
    /\ UNCHANGED <<text, it, current, peeked, handles>>

\* chars.start_token()
StartToken ==
    /\ mode = "idle"
    /\ Cardinality(handles) < MaxHandles
    /\ handles' = handles \cup {current}
    /\ op' = "start_token"
    /\ arg' = <<>>
    /\ ret' = current
    /\ UNCHANGED <<text, it, current, mode, peeked, test, base, out>>

\* chars.end_token(handle)
EndToken ==
    /\ mode = "idle"
    /\ \E h \in handles :
          /\ handles' = handles \ {h}
          /\ arg' = h
          /\ ret' = end_token(current, h)
    /\ op' = "end_token"
    /\ UNCHANGED <<text, it, current, mode, peeked, test, base, out>>

\* chars.checkpoint()
CheckpointNew ==
    /\ mode = "idle"
    /\ mode' = "cp"
    /\ peeked' = 0
    /\ base' = Snapshot
    /\ op' = "checkpoint"
    /\ arg' = <<>>
    /\ ret' = <<>>
    /\ UNCHANGED <<text, it, current, test, handles, out>>

\* checkpoint.next()
CheckpointNext ==
    /\ mode = "cp"
    /\ LET r == checkpoint_next(it, peeked)
       IN /\ it' = r.it
          /\ peeked' = r.peeked
          /\ ret' = r.ret
    /\ op' = "cp_next"
    /\ arg' = <<>>
    /\ UNCHANGED <<text, current, mode, test, handles, base, out>>

\* checkpoint.peek()
CheckpointPeek ==
    /\ mode = "cp"
    /\ LET r == checkpoint_peek(it, peeked)
       IN /\ it' = r.it
          /\ ret' = r.ret
    /\ op' = "cp_peek"
    /\ arg' = <<>>
    /\ UNCHANGED <<text, current, mode, peeked, test, handles, base, out>>

\* checkpoint.head_matches(s)
HeadMatches ==
    /\ mode = "cp"
    /\ \E s \in Patterns :
          LET r == head_matches(it, peeked, s)
          IN /\ it' = r.it
             /\ peeked' = r.peeked
             /\ ret' = r.ret
             /\ arg' = s
    /\ op' = "head_matches"
    /\ UNCHANGED <<text, current, mode, test, handles, base, out>>

\* checkpoint.commit()
Commit ==
    /\ mode = "cp"
    /\ LET c == commit(chars, peeked)
       IN /\ it' = c.it
          /\ current' = c.current
    /\ mode' = "idle"
    /\ peeked' = 0
    /\ base' = NoBase
    /\ op' = "commit"
    /\ arg' = peeked
    /\ ret' = <<>>
    /\ UNCHANGED <<text, test, handles, out>>

\* Abort, but the characters looked at are taken out of the stream
AbortDiscardsLookahead ==
    /\ mode = "cp"
    /\ mode' = "idle"
    /\ it' = [buf |-> SubSeq(it.buf, Min(peeked, Len(it.buf)) + 1, Len(it.buf)),
              iter |-> it.iter]
    /\ peeked' = 0
    /\ base' = NoBase
    /\ op' = "abort"
    /\ arg' = peeked
    /\ ret' = <<>>
    /\ UNCHANGED <<text, current, test, handles, out>>

\* checkpoint.abort()
Abort ==
    /\ mode = "cp"
    /\ mode' = "idle"
    /\ peeked' = 0
    /\ base' = NoBase
    /\ op' = "abort"
    /\ arg' = peeked
    /\ ret' = <<>>
    /\ UNCHANGED <<text, it, current, test, handles, out>>

\* the checkpoint goes out of scope
CheckpointDrop ==
    /\ mode = "cp"
    /\ mode' = "idle"
    /\ peeked' = 0
    /\ base' = NoBase
    /\ op' = "cp_drop"
    /\ arg' = peeked
    /\ ret' = <<>>
    /\ UNCHANGED <<text, it, current, test, handles, out>>

Next ==
    \/ CharsNext
    \/ CharsPeek
    \/ PeekWhile
    \/ PeekWhileNext
    \/ PeekWhileDrop
    \/ StartToken
    \/ EndToken
    \/ CheckpointNew
    \/ CheckpointNext
    \/ CheckpointPeek
    \/ HeadMatches
    \/ Commit
    \/ Abort
    \/ CheckpointDrop

Spec == Init /\ [][Next]_vars

\* -------------------------------------------------------------------- Span
\* usize::MAX, as the largest integer of the model
usize_MAX == 2147483647

\* LineAndColumn::UNKNOWN
LineAndColumn_UNKNOWN == [line |-> usize_MAX, column |-> usize_MAX]

\* RelativeSpan::UNKNOWN
RelativeSpan_UNKNOWN == [start |-> LineAndColumn_UNKNOWN, end |-> LineAndColumn_UNKNOWN]

\* Span::UNKNOWN
Span_UNKNOWN == [absolute |-> None, relative |-> RelativeSpan_UNKNOWN]

\* Span::is_unknown
is_unknown(s) == s.absolute = None

\* (a.line, a.column) < (b.line, b.column), the order of tuples
tuple_lt(a, b) == a.line < b.line \/ (a.line = b.line /\ a.column < b.column)

\* LineAndColumn::min, but line and column each minimised on its own
LineAndColumn_min_componentwise(a, b) ==
    [line |-> Min(a.line, b.line), column |-> Min(a.column, b.column)]

\* Ord::min on tuples: the second operand only if it is smaller
LineAndColumn_min(a, b) == IF tuple_lt(b, a) THEN b ELSE a

\* Ord::max on tuples: the first operand only if it is greater
LineAndColumn_max(a, b) == IF tuple_lt(b, a) THEN a ELSE b

\* RelativeSpan::add
RelativeSpan_add(a, b) ==
    [start |-> LineAndColumn_min(a.start, b.start),
     end   |-> LineAndColumn_max(a.end, b.end)]

\* AbsoluteSpan::add
AbsoluteSpan_add(a, b) ==
    IF a = None THEN None
    ELSE IF b = None THEN None
    ELSE Some([start |-> Min(a[1].start, b[1].start),
               end   |-> Max(a[1].end, b[1].end)])

\* Span::add, but without the shortcut for an unknown first operand
Span_add_keeps_left(a, b) ==
    IF is_unknown(b) THEN a
    ELSE [absolute |-> AbsoluteSpan_add(a.absolute, b.absolute),
          relative |-> RelativeSpan_add(a.relative, b.relative)]

\* Span::add
Span_add(a, b) ==
    IF is_unknown(a) THEN b
    ELSE IF is_unknown(b) THEN a
    ELSE [absolute |-> AbsoluteSpan_add(a.absolute, b.absolute),
          relative |-> RelativeSpan_add(a.relative, b.relative)]

\* spans.iter().copied().reduce(Span::add)
RECURSIVE reduce_add(_, _)
reduce_add(acc, spans) ==
    IF spans = <<>> THEN acc ELSE reduce_add(Span_add(acc, Head(spans)), Tail(spans))

\* the message of the debug assertion in Span::aggregate
EmptyListMessage == "Attempted to aggregate an empty list of spans"

\* aggregate, but the assertion is an assert!: it fires in every build
aggregate_always_asserts(spans, debug) ==
    LET result == IF spans = <<>> THEN Span_UNKNOWN
                  ELSE reduce_add(Head(spans), Tail(spans))
    IN IF is_unknown(result)
       THEN [panic |-> Some(EmptyListMessage), value |-> None]
       ELSE [panic |-> None, value |-> Some(result)]

\* Span::aggregate, in a build with (debug) or without debug assertions:
\* either it panics with a message or it returns a span
aggregate(spans, debug) ==
    LET result == IF spans = <<>> THEN Span_UNKNOWN
                  ELSE reduce_add(Head(spans), Tail(spans))
    IN IF debug /\ is_unknown(result)
       THEN [panic |-> Some(EmptyListMessage), value |-> None]
       ELSE [panic |-> None, value |-> Some(result)]

\* Span_eq, but comparing the absolute ranges only
Span_eq_absolute_only(a, b) ==
    IF is_unknown(a) \/ is_unknown(b) THEN TRUE
    ELSE a.absolute = b.absolute

\* Span_eq, but as #[derive(PartialEq)] would compare
Span_eq_derived(a, b) == a.absolute = b.absolute /\ a.relative = b.relative

\* <Span as PartialEq>::eq
Span_eq(a, b) ==
    IF is_unknown(a) \/ is_unknown(b) THEN TRUE
    ELSE a.absolute = b.absolute /\ a.relative = b.relative

\* Span::start
Span_start(s) == IF s.absolute = None THEN None ELSE Some(s.absolute[1].start)

\* Span::start_line
Span_start_line(s) == IF s.absolute = None THEN None ELSE Some(s.relative.start.line)

\* Span::start_position_on_start_line
Span_start_position_on_start_line(s) ==
    IF s.absolute = None THEN None ELSE Some(s.relative.start.column)

\* Span::end_line
Span_end_line(s) == IF s.absolute = None THEN None ELSE Some(s.relative.end.line)

\* Span::end_position_on_end_line
Span_end_position_on_end_line(s) ==
    IF s.absolute = None THEN None ELSE Some(s.relative.end.column)

\* a - b on usize: below zero the subtraction panics where overflow checks
\* are compiled in (debug) and wraps modulo usize_MAX + 1 where they are not
usize_sub(a, b, debug) ==
    IF a >= b THEN [panic |-> FALSE, value |-> Some(a - b)]
    ELSE IF debug THEN [panic |-> TRUE, value |-> None]
    ELSE [panic |-> FALSE, value |-> Some(usize_MAX - ((b - a) - 1))]

\* Span::len: self.absolute.map(|s| s.end - s.start); value is the Option
\* returned when the call does not panic
Span_len(s, debug) ==
    IF s.absolute = None THEN [panic |-> FALSE, value |-> None]
    ELSE LET d == usize_sub(s.absolute[1].end, s.absolute[1].start, debug)
         IN [panic |-> d.panic, value |-> IF d.panic THEN None ELSE Some(d.value[1])]

\* fmt, but a span one character wide is printed with its end
fmt_no_single_character_rule(s, alternate) ==
    IF is_unknown(s) THEN "???"
    ELSE LET st == s.relative.start
             en == s.relative.end
             head == "line " \o ToString(st.line) \o " column " \o ToString(st.column)
         IN IF st = en THEN head
            ELSE IF alternate
            THEN head \o " to"
                      \o (IF st.line # en.line THEN " line " \o ToString(en.line) ELSE "")
                      \o " column " \o ToString(en.column)
            ELSE head

\* <Span as Display>::fmt; alternate is the # flag (detailed mode)
fmt(s, alternate) ==
    IF is_unknown(s) THEN "???"
    ELSE LET st == s.relative.start
             en == s.relative.end
             head == "line " \o ToString(st.line) \o " column " \o ToString(st.column)
         IN IF st = en THEN head
            ELSE IF st.line = en.line /\ st.column + 1 = en.column THEN head
            ELSE IF alternate
            THEN head \o " to"
                      \o (IF st.line # en.line THEN " line " \o ToString(en.line) ELSE "")
                      \o " column " \o ToString(en.column)
            ELSE head

\* ---------------------------------------------------- the spans operated on
MaxSpans == 3        \* longest list handed to aggregate
MaxTokenText == 2    \* longest text whose tokens are aggregated

\* For Position only newline or not matters.
SpanTexts == SeqsUpTo({NL, 97}, MaxLen)

\* the Position of a stream over t after n advances
PositionAt(t, n) == take_drain(chars_new(t), n).current

\* every Position a stream over some text can be at
Positions == {PositionAt(t, n) : t \in SpanTexts, n \in 0..MaxLen}

\* every span the stream API hands out: end_token for any handle at any
\* Position (the handle need not come from the same stream), and UNKNOWN
Spans == {end_token(q, p) : p \in Positions, q \in Positions} \cup {Span_UNKNOWN}

\* the spans of the tokens of one text, and UNKNOWN
TokenSpans(t) ==
    {end_token(PositionAt(t, ij[2]), PositionAt(t, ij[1])) :
        ij \in {x \in (0..Len(t)) \X (0..Len(t)) : x[1] <= x[2]}}
    \cup {Span_UNKNOWN}

\* the lists of token spans handed to aggregate
SpanLists ==
    UNION {SeqsUpTo(TokenSpans(t), MaxSpans) : t \in SeqsUpTo({NL, 97}, MaxTokenText)}

\* ------------------------------------------------ operations on Span values
\* No stream is involved: the stream is the empty one and stays untouched.
SpanInit ==
    /\ text = <<>>
    /\ it = chars_new(text).it
    /\ current = chars_new(text).current
    /\ mode = "idle"
    /\ peeked = 0
    /\ test = "none"
    /\ handles = {}
    /\ base = NoBase
    /\ out = <<>>
    /\ op = "spans"
    /\ arg = <<>>
    /\ ret = <<>>

streamVars == <<text, it, current, mode, peeked, test, handles, base, out>>

\* Span::add(a, b)
SpanAdd ==
    /\ op = "spans"
    /\ \E a \in Spans, b \in Spans :
          /\ arg' = <<a, b>>
          /\ ret' = Span_add(a, b)
    /\ op' = "add"
    /\ UNCHANGED streamVars

\* Span::aggregate(spans), in a debug or a release build
SpanAggregate ==
    /\ op = "spans"
    /\ \E spans \in SpanLists, debug \in BOOLEAN :
          /\ arg' = [spans |-> spans, debug |-> debug]
          /\ ret' = aggregate(spans, debug)
    /\ op' = "aggregate"
    /\ UNCHANGED streamVars

\* a == b
SpanEq ==
    /\ op = "spans"
    /\ \E a \in Spans, b \in Spans :
          /\ arg' = <<a, b>>
          /\ ret' = Span_eq(a, b)
    /\ op' = "eq"
    /\ UNCHANGED streamVars

\* a == b, b == c and a == c
SpanEqChain ==
    /\ op = "spans"
    /\ \E l \in SpanLists :
          /\ Len(l) = 3
          /\ arg' = l
          /\ ret' = [ab |-> Span_eq(l[1], l[2]),
                     bc |-> Span_eq(l[2], l[3]),
                     ac |-> Span_eq(l[1], l[3])]
    /\ op' = "eq_chain"
    /\ UNCHANGED streamVars

\* format!("{span}") and format!("{span:#}")
SpanDisplay ==
    /\ op = "spans"
    /\ \E a \in Spans, alternate \in BOOLEAN :
          /\ arg' = [span |-> a, alternate |-> alternate]
          /\ ret' = fmt(a, alternate)
    /\ op' = "display"
    /\ UNCHANGED streamVars

\* the six accessors of a span, in a build with or without overflow checks
SpanAccessors ==
    /\ op = "spans"
    /\ \E a \in Spans, debug \in BOOLEAN :
          /\ arg' = [span |-> a, debug |-> debug]
          /\ ret' = [start_line |-> Span_start_line(a),
                     start_position_on_start_line |-> Span_start_position_on_start_line(a),
                     end_line |-> Span_end_line(a),
                     end_position_on_end_line |-> Span_end_position_on_end_line(a),
                     start |-> Span_start(a),
                     len |-> Span_len(a, debug)]
    /\ op' = "accessors"
    /\ UNCHANGED streamVars

\* a.start_token() on a stream over one text after i advances, then
\* b.end_token(handle) on a stream over another text after j advances (a
\* TokenHandle is not tied to the stream that issued it), then len()
SpanEndTokenOfHandle ==
    /\ op = "spans"
    /\ \E ta \in SpanTexts, tb \in SpanTexts, debug \in BOOLEAN :
          \E i \in 0..Len(ta), j \in 0..Len(tb) :
             LET handle == PositionAt(ta, i)
                 span == end_token(PositionAt(tb, j), handle)
             IN /\ arg' = [handle_text |-> ta, handle_at |-> i,
                           text |-> tb, at |-> j, debug |-> debug]
                /\ ret' = [span |-> span, len |-> Span_len(span, debug)]
    /\ op' = "end_token_of_handle"
    /\ UNCHANGED streamVars

SpanNext ==
    \/ SpanAdd
    \/ SpanAggregate
    \/ SpanEq
    \/ SpanEqChain
    \/ SpanDisplay
    \/ SpanAccessors
    \/ SpanEndTokenOfHandle

SpanSpec == SpanInit /\ [][SpanNext]_vars

\* ------------------------------------------------- vocabulary of the claims
\* the number of newlines in s
Newlines(s) == Cardinality({i \in 1..Len(s) : s[i] = NL})

\* the index of the last newline in s, 0 when it has none
LastNewline(s) ==
    LET I == {i \in 1..Len(s) : s[i] = NL}
    IN IF I = {} THEN 0 ELSE CHOOSE i \in I : \A j \in I : j <= i

\* the Position that consuming s from pos must give, counted from s as a whole
PosAfter(pos, s) ==
    [loc  |-> pos.loc + Len(s),
     line |-> pos.line + Newlines(s),
     col  |-> IF Newlines(s) = 0 THEN pos.col + Len(s)
                                 ELSE 1 + (Len(s) - LastNewline(s))]

IsPrefix(p, s) == Len(p) <= Len(s) /\ SubSeq(s, 1, Len(p)) = p

\* the longest prefix of s whose characters all satisfy t
LongestPrefix(s, t) ==
    LET N == {n \in 0..Len(s) : \A i \in 1..n : Accept(t, s[i])}
    IN Take(s, CHOOSE n \in N : \A m \in N : m <= n)

\* everything a stream yields when it is advanced to exhaustion, each character
\* with the Position reached after it
RECURSIVE Drain(_)
Drain(c) ==
    LET r == chars_next(c)
    IN IF r.ret = None THEN <<>>
       ELSE <<[ch |-> r.ret[1], pos |-> r.chars.current]>> \o Drain(r.chars)

\* what each way of reading a stream yields at once
Observe(c) ==
    [drain |-> Drain(c),
     peek  |-> chars_peek(c).ret,
     ahead |-> [n \in 0..(MaxLen + 1) |-> checkpoint_next(c.it, n).ret],
     while |-> [t \in Tests |-> peeking_next(c, t).ret],
     pos   |-> c.current]

\* ------------------------------------------------------------------ C1
\* C1: commit() of a checkpoint whose lookahead_count is k advances the owning
\* stream by exactly k characters: offset grows by k, line and column are those
\* of consuming the next k characters directly, and the remaining output is the
\* old remaining output without its first k characters.
C1_CommitAdvancesByLookahead ==
    [][op' = "commit" =>
         LET k == peeked
         IN /\ k <= Len(Rest)
            /\ current'.loc = current.loc + k
            /\ current' = PosAfter(current, Take(Rest, k))
            /\ Rest' = SubSeq(Rest, k + 1, Len(Rest))
            /\ Len(Rest') = Len(Rest) - k]_vars

C1_Witness ==
    /\ op = "commit"
    /\ arg >= 2
    /\ current.line >= 2
    /\ Rest # <<>>

\* ------------------------------------------------------------------ C2
\* C2: abort() (or dropping the checkpoint) leaves the owning stream as if the
\* checkpoint had never been created: Position is the one it had when the
\* checkpoint was taken, and next, peek, peek_while and a new checkpoint (which
\* starts at lookahead_count 0) yield what they would have yielded then.
C2_AbortLeavesStreamUntouched ==
    [][/\ (op' \in {"abort", "cp_drop"} =>
             /\ mode' = "idle"
             /\ current' = base.current
             /\ Rest' = base.rest
             /\ Observe([it |-> it', current |-> current'])
                  = Observe([it |-> base.it, current |-> base.current]))
       /\ (op' = "checkpoint" => peeked' = 0)]_vars

C2_Witness ==
    /\ op = "abort"
    /\ arg >= 2
    /\ Len(it.buf) >= 2
    /\ current.loc >= 1

\* ------------------------------------------------------------------ C3
\* C3: when the first n characters of the text have been consumed, however they
\* were consumed, offset = n, line = 1 + the newlines among them and column =
\* 1 + the characters consumed after the last consumed newline.
C3_PositionCountsConsumed ==
    LET n == Len(text) - Len(Rest)
        consumed == SubSeq(text, 1, n)
    IN /\ n >= 0
       /\ Rest = SubSeq(text, n + 1, Len(text))
       /\ current.loc = n
       /\ current.line = 1 + Newlines(consumed)
       /\ current.col = 1 + (n - LastNewline(consumed))

C3_Witness ==
    /\ current.loc = 3
    /\ current.line = 2
    /\ current.col = 2

\* ------------------------------------------------------------------ C4
\* C4: end_token(handle) for a handle taken at Position P, called at Position
\* Q, returns a non-unknown Span with absolute range [P.offset, Q.offset] and
\* relative range (P.line, P.column) to (Q.line, Q.column); the other open
\* handles stay open, and neither start_token nor end_token changes the
\* stream's Position or remaining output.
C4_EndTokenSpansHandleToCurrent ==
    [][/\ (op' = "end_token" =>
             LET P == arg'
                 Q == current
             IN /\ P \in handles
                /\ ret'.absolute # None
                /\ ret'.absolute[1].start = P.loc
                /\ ret'.absolute[1].end = Q.loc
                /\ ret'.relative.start.line = P.line
                /\ ret'.relative.start.column = P.col
                /\ ret'.relative.end.line = Q.line
                /\ ret'.relative.end.column = Q.col
                /\ handles' = handles \ {P}
                /\ current' = current
                /\ it' = it)
       /\ (op' = "start_token" =>
             /\ ret' = current
             /\ handles' = handles \cup {current}
             /\ current' = current
             /\ it' = it)]_vars

C4_Witness ==
    /\ op = "end_token"
    /\ ret.absolute = Some([start |-> 1, end |-> 3])
    /\ ret.relative.start.line = 1
    /\ ret.relative.end.line = 2
    /\ handles # {}

\* ------------------------------------------------------------------ C5
\* C5: peek_while(p) never consumes a character that fails p: what it has
\* yielded is a prefix of the input all of whose characters satisfy p, Position
\* has advanced by exactly those characters, and once it has returned nothing
\* it has yielded the longest such prefix and the rest of the stream is the
\* suffix that starts at the first rejected character.
C5_PeekWhileStopsBeforeRejected ==
    mode = "pw" =>
        /\ out \o Rest = base.rest
        /\ \A i \in 1..Len(out) : Accept(test, out[i])
        /\ current = PosAfter(base.current, out)
        /\ (op = "pw_next" /\ ret = None =>
              /\ out = LongestPrefix(base.rest, test)
              /\ [i \in 1..Len(Drain(chars)) |-> Drain(chars)[i].ch]
                   = SubSeq(base.rest, Len(out) + 1, Len(base.rest)))

C5_Witness ==
    /\ mode = "pw"
    /\ op = "pw_next"
    /\ ret = None
    /\ Len(out) >= 1
    /\ Rest # <<>>
    /\ ~Accept(test, Head(Rest))

\* ------------------------------------------------------------------ C6
\* C6: Chars.peek() returns the character the next advance returns (nothing at
\* end of input), returns the same value when called again with no advance in
\* between, and leaves Position and the remaining output unchanged.
C6_PeekIdempotent ==
    [][/\ (op' = "peek" =>
             /\ ret' = (IF Rest = <<>> THEN None ELSE Some(Head(Rest)))
             /\ current' = current
             /\ Rest' = Rest)
       /\ (op = "peek" /\ op' = "peek" => ret' = ret)
       /\ (op = "peek" /\ op' = "next" => ret' = ret)]_vars

C6_Witness ==
    /\ op = "peek"
    /\ ret # None
    /\ current.loc >= 1
    /\ Len(it.buf) = 1

\* ------------------------------------------------------------------ C7
\* C7: next() on a Checkpoint whose lookahead_count is k returns the character
\* k places after the stream's committed position and makes lookahead_count
\* k + 1, or returns nothing and leaves lookahead_count at k when fewer than
\* k + 1 characters remain (so every later call returns nothing too); the
\* owning stream's Position is never changed.
C7_CheckpointNextLooksAhead ==
    [][/\ (op' = "cp_next" =>
             LET k == peeked
             IN /\ current' = current
                /\ Rest' = Rest
                /\ IF k + 1 <= Len(Rest)
                   THEN ret' = Some(Rest[k + 1]) /\ peeked' = k + 1
                   ELSE ret' = None /\ peeked' = k)
       /\ (op = "cp_next" /\ ret = None /\ op' \in {"cp_next", "cp_peek"} =>
             ret' = None /\ peeked' = peeked)]_vars

C7_Witness ==
    /\ op = "cp_next"
    /\ ret = None
    /\ peeked >= 2
    /\ current.loc >= 1

\* ------------------------------------------------------------------ C8
\* C8: Checkpoint.peek() returns what the checkpoint's next() would return,
\* changes neither lookahead_count nor the stream's Position, returns the same
\* value until next() is called, and the peeked character is not consumed by a
\* commit() that follows.
C8_CheckpointPeekIsNextWithoutAdvance ==
    [][/\ (op' = "cp_peek" =>
             /\ ret' = (IF peeked < Len(Rest) THEN Some(Rest[peeked + 1]) ELSE None)
             /\ ret' = checkpoint_next(it, peeked).ret
             /\ peeked' = peeked
             /\ current' = current
             /\ Rest' = Rest)
       /\ (op = "cp_peek" /\ op' \in {"cp_peek", "cp_next"} => ret' = ret)
       /\ (op = "cp_peek" /\ op' = "commit" =>
             /\ current'.loc = current.loc + peeked
             /\ chars_next([it |-> it', current |-> current']).ret = ret)]_vars

C8_Witness ==
    /\ op = "commit"
    /\ arg >= 1
    /\ Len(it.buf) >= 1
    /\ current.loc = arg

\* ------------------------------------------------------------------ C9
\* C9: head_matches(expected) returns true if and only if the characters of
\* the stream from the checkpoint's lookahead cursor on begin with expected,
\* for every expected: multi-byte characters and the empty string included.
C9_HeadMatchesIffPrefix ==
    [][op' = "head_matches" =>
         (ret' <=> IsPrefix(arg', SubSeq(Rest, peeked + 1, Len(Rest))))]_vars

\* ------------------------------------------------------------------ C10
\* C10 (as stated): head_matches(expected) advances lookahead_count by exactly
\* len(expected), whatever it returns.
C10_AdvancesByExactlyLen ==
    [][op' = "head_matches" => peeked' = peeked + str_len(arg')]_vars

\* C10 (amended): head_matches(expected) advances lookahead_count by
\* len(expected) (its length in bytes) or by the number of characters left
\* after the cursor if that is smaller, whether it returns true or false; the
\* next element the checkpoint produces is the one that many places past the
\* cursor at the time of the call, never the start of the compared window.
C10_AdvancesByLenOrToEnd ==
    [][op' = "head_matches" =>
         LET left == Len(Rest) - peeked
             n == Min(str_len(arg'), left)
         IN /\ peeked' = peeked + n
            /\ current' = current
            /\ Rest' = Rest
            /\ checkpoint_next(it', peeked').ret
                 = (IF n < left THEN Some(Rest[peeked + n + 1]) ELSE None)]_vars

C10_Witness ==
    /\ op = "head_matches"
    /\ ret = FALSE
    /\ str_len(arg) = 2
    /\ peeked = 2
    /\ Len(Rest) > 2
    /\ current.loc = 0

\* ------------------------------------------------------------------ C11
\* C11: when fewer characters remain after the lookahead cursor than expected
\* contains, head_matches(expected) produces the characters there are, returns
\* false and leaves the checkpoint at end of input: next() and peek() on it
\* return nothing from then on, and aborting it leaves the stream unchanged.
C11_HeadMatchesOnShortInput ==
    [][/\ (op' = "head_matches" /\ Len(Rest) - peeked < Len(arg') =>
             /\ ret' = FALSE
             /\ peeked' = Len(Rest)
             /\ current' = current
             /\ Rest' = Rest
             /\ checkpoint_next(it', peeked').ret = None
             /\ checkpoint_peek(it', peeked').ret = None)
       /\ (mode = "cp" /\ peeked = Len(Rest) /\ op' \in {"cp_next", "cp_peek"} =>
             ret' = None /\ peeked' = peeked)
       /\ (op = "head_matches" /\ op' \in {"abort", "cp_drop"} =>
             /\ current' = base.current
             /\ Rest' = base.rest
             /\ Drain([it |-> it', current |-> current'])
                  = Drain([it |-> base.it, current |-> base.current]))]_vars

C11_Witness ==
    /\ op = "head_matches"
    /\ ret = FALSE
    /\ Len(arg) = 2
    /\ Len(text) = 1
    /\ arg[1] = text[1]
    /\ current.loc = 0
    /\ peeked = 1

\* ------------------------------------------------------------------ C12
\* C12: a stream over a text of n characters yields those n characters in
\* order and is then exhausted: an advance at offset i < n returns the
\* character of the text at index i, at offset n every advance and every peek
\* returns nothing, an advance that returns nothing leaves Position unchanged,
\* and an exhausted stream stays exhausted.
C12_FiniteThenExhausted ==
    [][/\ (op' = "next" /\ ret' # None =>
             /\ current.loc < Len(text)
             /\ ret' = Some(text[current.loc + 1])
             /\ current'.loc = current.loc + 1)
       /\ (op' = "next" /\ ret' = None =>
             /\ current.loc = Len(text)
             /\ current' = current
             /\ Rest' = <<>>)
       /\ (op' = "next" /\ Rest # <<>> => ret' # None)
       /\ (op' = "peek" /\ Rest = <<>> => ret' = None /\ Rest' = <<>>)
       /\ (Rest = <<>> => Rest' = <<>>)]_vars

C12_Witness ==
    /\ op = "next"
    /\ ret = None
    /\ current.loc = MaxLen
    /\ current.line = 2
    /\ Len(text) = MaxLen

\* ---------------------------------------------- vocabulary of the span claims
\* (line, column) pairs in lexicographic order
LexLE(a, b) == a.line < b.line \/ (a.line = b.line /\ a.column <= b.column)

\* start <= end in both coordinate systems
WellFormed(sp) ==
    \/ sp.absolute = None
    \/ /\ sp.absolute[1].start <= sp.absolute[1].end
       /\ LexLE(sp.relative.start, sp.relative.end)

\* the line and column of a Position
LineColumn(pos) == [line |-> pos.line, column |-> pos.col]

\* the spans of the tokens of text t, from the text alone: characters i+1..j
ClosableSpans(t) ==
    {[absolute |-> Some([start |-> ij[1], end |-> ij[2]]),
      relative |-> [start |-> LineColumn(PosAfter(Position0, SubSeq(t, 1, ij[1]))),
                    end   |-> LineColumn(PosAfter(Position0, SubSeq(t, 1, ij[2])))]] :
        ij \in {x \in (0..Len(t)) \X (0..Len(t)) : x[1] <= x[2]}}

\* list l with its elements at i and i + 1 exchanged
SwapAt(l, i) ==
    [k \in 1..Len(l) |-> IF k = i THEN l[i + 1] ELSE IF k = i + 1 THEN l[i] ELSE l[k]]

\* list l back to front
Reversed(l) == [k \in 1..Len(l) |-> l[Len(l) + 1 - k]]

\* ------------------------------------------------------------------ C13
\* C13: merge(a, b) is b when a is unknown and a when b is unknown; otherwise
\* it is a non-unknown span whose absolute range is [min of the starts, max of
\* the ends] and whose relative range runs from the lexicographic minimum of
\* the two starts to the lexicographic maximum of the two ends, whatever the
\* order of the operands.
C13_MergeIsCoveringSpan ==
    op = "add" =>
        LET a == arg[1]
            b == arg[2]
        IN IF is_unknown(a) THEN ret = b
           ELSE IF is_unknown(b) THEN ret = a
           ELSE /\ ~is_unknown(ret)
                /\ ret.absolute[1].start \in {a.absolute[1].start, b.absolute[1].start}
                /\ ret.absolute[1].start <= a.absolute[1].start
                /\ ret.absolute[1].start <= b.absolute[1].start
                /\ ret.absolute[1].end \in {a.absolute[1].end, b.absolute[1].end}
                /\ ret.absolute[1].end >= a.absolute[1].end
                /\ ret.absolute[1].end >= b.absolute[1].end
                /\ ret.relative.start \in {a.relative.start, b.relative.start}
                /\ LexLE(ret.relative.start, a.relative.start)
                /\ LexLE(ret.relative.start, b.relative.start)
                /\ ret.relative.end \in {a.relative.end, b.relative.end}
                /\ LexLE(a.relative.end, ret.relative.end)
                /\ LexLE(b.relative.end, ret.relative.end)
                /\ ret = Span_add(b, a)

C13_Witness ==
    /\ op = "add"
    /\ ~is_unknown(arg[1])
    /\ ~is_unknown(arg[2])
    /\ arg[2].absolute[1].end < arg[1].absolute[1].start
    /\ arg[2].relative.start.line < arg[1].relative.start.line
    /\ arg[2].relative.start.column > arg[1].relative.start.column
    /\ ret.relative.start = arg[2].relative.start

\* ------------------------------------------------------------------ C14
\* C14: aggregate([a]) is a itself for a non-unknown a, and the outcome of
\* aggregate on a list is the same for every order of its elements: it is the
\* same for the list back to front and for the list with any two neighbours
\* exchanged, and every order is reached by such exchanges.
C14_AggregateIgnoresOrder ==
    op = "aggregate" =>
        LET l == arg.spans
            n == Len(l)
        IN /\ (n = 1 /\ ~is_unknown(l[1]) =>
                 ret = [panic |-> None, value |-> Some(l[1])])
           /\ aggregate(Reversed(l), arg.debug) = ret
           /\ \A i \in 1..(n - 1) : aggregate(SwapAt(l, i), arg.debug) = ret

C14_Witness ==
    /\ op = "aggregate"
    /\ Len(arg.spans) = 3
    /\ \A i \in 1..3 : ~is_unknown(arg.spans[i])
    /\ arg.spans[1].absolute[1].start > arg.spans[2].absolute[1].end
    /\ arg.spans[3].absolute[1].end < arg.spans[2].absolute[1].start
    /\ ret.value[1].absolute = Some([start |-> 0, end |-> 2])
    /\ ret.value[1].relative.end.line = 2

\* ------------------------------------------------------------------ C15
\* C15: aggregate of the empty list panics with "Attempted to aggregate an
\* empty list of spans" when debug assertions are on, and returns
\* Span::UNKNOWN when they are off.
C15_AggregateOfNothing ==
    op = "aggregate" /\ arg.spans = <<>> =>
        IF arg.debug
        THEN /\ ret.panic = Some("Attempted to aggregate an empty list of spans")
             /\ ret.value = None
        ELSE /\ ret.panic = None
             /\ ret.value = Some(Span_UNKNOWN)

C15_Witness ==
    /\ op = "aggregate"
    /\ arg.spans = <<>>
    /\ ~arg.debug
    /\ ret.value # None
    /\ is_unknown(ret.value[1])

\* ------------------------------------------------------------------ C16
\* C16: a == b holds whenever a or b is unknown; two non-unknown spans are
\* equal exactly when their absolute ranges and their relative ranges both
\* match, so non-unknown spans with different absolute ranges are unequal.
C16_EqualityWithWildcard ==
    op = "eq" =>
        LET a == arg[1]
            b == arg[2]
        IN IF is_unknown(a) \/ is_unknown(b) THEN ret = TRUE
           ELSE /\ ret <=> /\ a.absolute[1].start = b.absolute[1].start
                           /\ a.absolute[1].end = b.absolute[1].end
                           /\ a.relative.start.line = b.relative.start.line
                           /\ a.relative.start.column = b.relative.start.column
                           /\ a.relative.end.line = b.relative.end.line
                           /\ a.relative.end.column = b.relative.end.column
                /\ (a.absolute # b.absolute => ret = FALSE)

C16_Witness ==
    /\ op = "eq"
    /\ ~is_unknown(arg[1])
    /\ ~is_unknown(arg[2])
    /\ arg[1].absolute = arg[2].absolute
    /\ arg[1].relative # arg[2].relative
    /\ ret = FALSE

\* ------------------------------------------------------------------ C17
\* C17: equality is reflexive and symmetric for all spans but not transitive:
\* a == b and b == c hold while a == c fails exactly when b is unknown and a
\* and c are non-unknown spans that differ.
C17_EqualityNotTransitive ==
    /\ (op = "eq" =>
          /\ ret = Span_eq(arg[2], arg[1])
          /\ Span_eq(arg[1], arg[1])
          /\ Span_eq(arg[2], arg[2]))
    /\ (op = "eq_chain" =>
          ((ret.ab /\ ret.bc /\ ~ret.ac) <=>
              /\ is_unknown(arg[2])
              /\ ~is_unknown(arg[1])
              /\ ~is_unknown(arg[3])
              /\ arg[1] # arg[3]))

C17_Witness ==
    /\ op = "eq_chain"
    /\ ret.ab
    /\ ret.bc
    /\ ~ret.ac
    /\ arg[2] = Span_UNKNOWN

\* ------------------------------------------------------------------ C18
\* C18: a span closed by end_token on the stream its handle was taken from,
\* whatever was done to the stream in between, is one of the token spans of the
\* text; it and every merge of such spans (which is again such a span) has
\* absolute.start <= absolute.end and relative.start <= relative.end in
\* lexicographic order.
C18_SpansAreWellFormed ==
    op = "end_token" =>
        /\ ret \in ClosableSpans(text)
        /\ WellFormed(ret)
        /\ \A sp \in ClosableSpans(text) \cup {Span_UNKNOWN} :
              /\ WellFormed(Span_add(ret, sp))
              /\ WellFormed(Span_add(sp, ret))
              /\ Span_add(ret, sp) \in ClosableSpans(text)
              /\ Span_add(sp, ret) \in ClosableSpans(text)

C18_Witness ==
    /\ op = "end_token"
    /\ ret.absolute[1].start < ret.absolute[1].end
    /\ ret.relative.start.line < ret.relative.end.line
    /\ ret.relative.start.column > ret.relative.end.column

\* ------------------------------------------------------------------ C19
\* C19: the absolute coordinates of a span closed on the stream are byte
\* positions: start() is the number of bytes of the text before the token's
\* first character and len() is the number of bytes of the token's text.
C19_AbsoluteIsInBytes ==
    [][op' = "end_token" =>
         /\ Span_start(ret') = Some(str_len(SubSeq(text, 1, arg'.loc)))
         /\ \A debug \in BOOLEAN :
               Span_len(ret', debug) =
                  [panic |-> FALSE,
                   value |-> Some(str_len(SubSeq(text, arg'.loc + 1, current.loc)))]]_vars

\* ------------------------------------------------------------------ C20
\* C20: an unknown span prints "???"; any other prints "line L column C" of
\* its start, and that is all in compact mode, for an empty span and for a span
\* on one line whose end column is the start column + 1; otherwise detailed
\* mode adds " to", then " line L2" if the end is on another line, then
\* " column C2".
C20_Display ==
    op = "display" =>
        LET sp == arg.span
            st == sp.relative.start
            en == sp.relative.end
            StartText == "line " \o ToString(st.line) \o " column " \o ToString(st.column)
            EndColumn == " column " \o ToString(en.column)
        IN CASE sp.absolute = None -> ret = "???"
             [] sp.absolute # None /\ ~arg.alternate -> ret = StartText
             [] sp.absolute # None /\ arg.alternate /\ st = en -> ret = StartText
             [] sp.absolute # None /\ arg.alternate /\ st # en
                  /\ st.line = en.line /\ en.column = st.column + 1 -> ret = StartText
             [] sp.absolute # None /\ arg.alternate /\ st # en
                  /\ st.line = en.line /\ en.column # st.column + 1 ->
                    ret = StartText \o " to" \o EndColumn
             [] sp.absolute # None /\ arg.alternate /\ st.line # en.line ->
                    ret = StartText \o " to line " \o ToString(en.line) \o EndColumn

C20_Witness ==
    /\ op = "display"
    /\ arg.alternate
    /\ arg.span.absolute = Some([start |-> 0, end |-> 3])
    /\ ret = "line 1 column 1 to line 2 column 2"

\* ------------------------------------------------------------------ C21
\* C21: the accessors of an unknown span all return no value, it prints
\* "???", and merging it returns the other operand as it is; the accessors of
\* any other span all return a value: the line and column of its relative
\* start and end, its absolute start, and absolute end - absolute start for
\* len, without a panic.
C21_SentinelNeverObserved ==
    /\ op = "accessors" =>
          LET sp == arg.span
          IN IF is_unknown(sp)
             THEN ret = [start_line |-> None,
                         start_position_on_start_line |-> None,
                         end_line |-> None,
                         end_position_on_end_line |-> None,
                         start |-> None,
                         len |-> [panic |-> FALSE, value |-> None]]
             ELSE ret = [start_line |-> Some(sp.relative.start.line),
                         start_position_on_start_line |-> Some(sp.relative.start.column),
                         end_line |-> Some(sp.relative.end.line),
                         end_position_on_end_line |-> Some(sp.relative.end.column),
                         start |-> Some(sp.absolute[1].start),
                         len |-> [panic |-> FALSE,
                                  value |-> Some(sp.absolute[1].end - sp.absolute[1].start)]]
    /\ op = "display" /\ is_unknown(arg.span) => ret = "???"
    /\ op = "add" /\ is_unknown(arg[1]) => ret = arg[2]
    /\ op = "add" /\ is_unknown(arg[2]) => ret = arg[1]

\* ------------------------------------------------------------------ C22
\* C22: the offset of the Position is between 0 and the number of characters
\* of the text, and the character the stream yields next (and shows on peek)
\* is the one at that offset of the text, or none when the offset is the
\* length of the text, however much lookahead is buffered.
C22_OffsetIndexesText ==
    LET expected == IF current.loc < Len(text) THEN Some(text[current.loc + 1]) ELSE None
    IN /\ 0 <= current.loc
       /\ current.loc <= Len(text)
       /\ chars_next(chars).ret = expected
       /\ chars_peek(chars).ret = expected

C22_Witness ==
    /\ op = "next"
    /\ ret # None
    /\ mode = "idle"
    /\ current.loc >= 1
    /\ current.loc < Len(text)
    /\ Len(it.buf) >= 1

\* ------------------------------------------------------------------ C23
\* C23: no step lowers the offset or the (line, column) of the Position; of
\* any two Positions of the stream (outstanding handles, the current one,
\* every Position the stream was at before) one has the smaller offset
\* exactly when it has the smaller (line, column); and a span closed on the
\* stream merged with any span of the same text has as relative start and end
\* the line and column of the characters at its absolute start and end.
C23_PositionsOrderedAlike ==
    [][/\ current'.loc >= current.loc
       /\ LexLE(LineColumn(current), LineColumn(current'))
       /\ \A p \in handles' \cup {current'}, q \in handles' \cup {current'} :
             (p.loc <= q.loc) <=> LexLE(LineColumn(p), LineColumn(q))
       /\ current' # current =>
             \A i \in 0..current'.loc :
                LET p == take_drain(chars_new(text), i).current
                IN /\ p.loc = i
                   /\ (i <= current'.loc) <=> LexLE(LineColumn(p), LineColumn(current'))
                   /\ (current'.loc <= i) <=> LexLE(LineColumn(current'), LineColumn(p))
       /\ op' = "end_token" =>
             \A sp \in ClosableSpans(text) :
                LET m == Span_add(ret', sp)
                IN /\ m.relative.start =
                        LineColumn(PosAfter(Position0, SubSeq(text, 1, m.absolute[1].start)))
                   /\ m.relative.end =
                        LineColumn(PosAfter(Position0, SubSeq(text, 1, m.absolute[1].end)))]_vars

C23_Witness ==
    /\ op = "next"
    /\ ret = Some(NL)
    /\ \E h \in handles :
          /\ h.loc < current.loc
          /\ h.line < current.line
          /\ h.col > current.col

\* ------------------------------------------------------------------ C24
\* C24: in a debug build aggregate panics with "Attempted to aggregate an
\* empty list of spans" only for the empty list; for every other list it
\* returns the merge of the elements.
C24_AssertionOnlyOnEmptyList ==
    op = "aggregate" /\ arg.debug =>
        IF arg.spans = <<>>
        THEN ret = [panic |-> Some(EmptyListMessage), value |-> None]
        ELSE ret = [panic |-> None,
                    value |-> Some(reduce_add(Head(arg.spans), Tail(arg.spans)))]

\* ------------------------------------------------------------------ C25
\* C25: whatever handle end_token is given, one issued by another stream
\* included, the span it returns has absolute start <= absolute end and len()
\* returns end - start without underflow.
C25_EndTokenNeverUnderflows ==
    op = "end_token_of_handle" =>
        LET a == ret.span.absolute[1]
        IN /\ a.start <= a.end
           /\ ret.len = [panic |-> FALSE, value |-> Some(a.end - a.start)]

\* ------------------------------------------------------------------ C26
\* C26: for a token span of a stream, compact display prints only
\* "line L column C", and detailed display prints more than that exactly when
\* len() > 1.
C26_EndPrintedIffWiderThanOne ==
    op = "display" /\ arg.span \in UNION {TokenSpans(t) : t \in SpanTexts}
                   /\ ~is_unknown(arg.span) =>
        LET st == arg.span.relative.start
            StartText == "line " \o ToString(st.line) \o " column " \o ToString(st.column)
            len == Span_len(arg.span, TRUE).value[1]
        IN IF arg.alternate
           THEN (ret # StartText) <=> (len > 1)
           ELSE ret = StartText

====
